---- MODULE Spec2Model ----
(***************************************************************************)
(* Model of stems.gis: the CF georeferencing conventions                   *)
(* (src/stems/gis/conventions.py) and the type-dispatched converters       *)
(* (src/stems/gis/convert.py).                                             *)
(*                                                                         *)
(* Python objects are modelled by value.  A dict is a function whose       *)
(* DOMAIN is its key set.  Text that the code takes apart (str.split,      *)
(* str.lower, int()) is a sequence of one-character strings; text that is  *)
(* only stored or compared is a TLA+ string.  A call's result is           *)
(* Return(v) or Raise(exception, message).                                 *)
(***************************************************************************)
EXTENDS Integers, Sequences, FiniteSets, TLC

VARIABLES
    objs,        \* the xarray objects alive: objs[1] is the caller's original
    calls,       \* number of georeference calls made
    registry,    \* per converter, its singledispatch registry: type -> function
    COORD_DEFS,  \* the module-level dict of coordinate attribute templates
    last         \* the last call: its arguments and its outcome

vars == <<objs, calls, registry, COORD_DEFS, last>>

(* ------------------------------------------------------------------ *)
(* Bounds                                                             *)
(* ------------------------------------------------------------------ *)
\* number of georeference calls in one run
MaxCalls == 2

(* ------------------------------------------------------------------ *)
(* Python built-ins                                                   *)
(* ------------------------------------------------------------------ *)
Return(v) == [kind |-> "return", value |-> v]
Raise(e, m) == [kind |-> "raise", exc |-> e, msg |-> m]

EmptyDict == [k \in {} |-> k]
\* d[k] = v
Put(d, k, v) == [x \in DOMAIN d \cup {k} |-> IF x = k THEN v ELSE d[x]]
\* d.update(e)
Update(d, e) == [x \in DOMAIN d \cup DOMAIN e |-> IF x \in DOMAIN e THEN e[x] ELSE d[x]]

\* tagged attribute values
Str(s) == [t |-> "str", v |-> s]
Num(n) == [t |-> "num", v |-> n]
Tup(s) == [t |-> "tuple", v |-> s]
Lst(s) == [t |-> "list", v |-> s]
Arr(s) == [t |-> "ndarray", v |-> s]

UpperChars == <<"A","B","C","D","E","F","G","H","I","J","K","L","M",
                "N","O","P","Q","R","S","T","U","V","W","X","Y","Z">>
LowerChars == <<"a","b","c","d","e","f","g","h","i","j","k","l","m",
                "n","o","p","q","r","s","t","u","v","w","x","y","z">>
DigitChars == <<"0","1","2","3","4","5","6","7","8","9">>

LowerChar(c) ==
    IF \E i \in DOMAIN UpperChars : UpperChars[i] = c
    THEN LowerChars[CHOOSE i \in DOMAIN UpperChars : UpperChars[i] = c]
    ELSE c

\* str.lower()
Lower(s) == [i \in DOMAIN s |-> LowerChar(s[i])]

IsDigit(c) == \E i \in DOMAIN DigitChars : DigitChars[i] = c
DigitVal(c) == (CHOOSE i \in DOMAIN DigitChars : DigitChars[i] = c) - 1

RECURSIVE DigitsVal(_)
DigitsVal(s) ==
    IF s = <<>> THEN 0
    ELSE DigitsVal(SubSeq(s, 1, Len(s) - 1)) * 10 + DigitVal(s[Len(s)])

\* int(s) for a str s: decimal digits, ValueError otherwise
ParseInt(s) ==
    IF s # <<>> /\ \A i \in DOMAIN s : IsDigit(s[i])
    THEN Return(DigitsVal(s))
    ELSE Raise("ValueError", "invalid literal for int()")

RECURSIVE SplitFrom(_, _, _)
SplitFrom(s, sep, cur) ==
    IF s = <<>> THEN <<cur>>
    ELSE IF Head(s) = sep THEN <<cur>> \o SplitFrom(Tail(s), sep, <<>>)
    ELSE SplitFrom(Tail(s), sep, Append(cur, Head(s)))

\* s.split(sep) for a one-character separator
Split(s, sep) == SplitFrom(s, sep, <<>>)

(* ------------------------------------------------------------------ *)
(* Canonical values and the Projection Service                        *)
(* ------------------------------------------------------------------ *)
\* what projections.epsg_code(crs) does: a string, None, or ValueError
AuthOk(s) == [kind |-> "ok", v |-> s]
AuthNone == [kind |-> "none"]
AuthFail == [kind |-> "ValueError"]

\* A rasterio CRS, described by what the Projection Service answers for it.
WGS84 ==
    [id |-> "WGS84", projected |-> FALSE, valid |-> TRUE,
     unit |-> <<"d","e","g","r","e","e">>,
     auth |-> AuthOk(<<"E","P","S","G",":","4","3","2","6">>),
     wkt |-> "GEOGCS[WGS 84]",
     gm_name |-> "latitude_longitude",
     cf_crs_attrs |-> [long_name |-> Str("WGS 84")],
     cf_proj_params |-> EmptyDict,
     cf_ellps_params |-> [semi_major_axis |-> Num(6378137),
                          inverse_flattening |-> Num(298)]]
UTM19N ==
    [id |-> "UTM19N", projected |-> TRUE, valid |-> TRUE,
     unit |-> <<"m","e","t","r","e">>,
     auth |-> AuthOk(<<"E","P","S","G",":","3","2","6","1","9">>),
     wkt |-> "PROJCS[WGS 84 / UTM zone 19N]",
     gm_name |-> "transverse_mercator",
     cf_crs_attrs |-> [long_name |-> Str("WGS 84 / UTM zone 19N")],
     cf_proj_params |-> [longitude_of_central_meridian |-> Num(-69),
                         scale_factor_at_central_meridian |-> Num(1)],
     cf_ellps_params |-> [semi_major_axis |-> Num(6378137),
                          inverse_flattening |-> Num(298)]]
\* a custom Albers definition: no authority code, list-valued parameter
AEA ==
    [id |-> "AEA", projected |-> TRUE, valid |-> TRUE,
     unit |-> <<"m","e","t","r","e">>,
     auth |-> AuthNone,
     wkt |-> "PROJCS[Albers custom]",
     gm_name |-> "albers_conical_equal_area",
     cf_crs_attrs |-> [long_name |-> Str("Albers custom")],
     cf_proj_params |-> [standard_parallel |-> Lst(<<29, 45>>),
                         longitude_of_central_meridian |-> Num(-96)],
     cf_ellps_params |-> [semi_major_axis |-> Num(6378137),
                          inverse_flattening |-> Num(298)]]
\* a state-plane style definition in feet: the authority lookup fails
SPFT ==
    [id |-> "SPFT", projected |-> TRUE, valid |-> TRUE,
     unit |-> <<"U","S"," ","s","u","r","v","e","y"," ","f","o","o","t">>,
     auth |-> AuthFail,
     wkt |-> "PROJCS[State Plane ft]",
     gm_name |-> "lambert_conformal_conic",
     cf_crs_attrs |-> [long_name |-> Str("State Plane ft")],
     cf_proj_params |-> [standard_parallel |-> Tup(<<41, 42>>)],
     cf_ellps_params |-> [semi_major_axis |-> Num(6378137),
                          inverse_flattening |-> Num(298)]]
\* a sphere-based geographic definition without an authority code
SPHERE ==
    [id |-> "SPHERE", projected |-> FALSE, valid |-> TRUE,
     unit |-> <<"d","e","g","r","e","e">>,
     auth |-> AuthNone,
     wkt |-> "GEOGCS[Sphere]",
     gm_name |-> "latitude_longitude",
     cf_crs_attrs |-> [long_name |-> Str("Sphere")],
     cf_proj_params |-> EmptyDict,
     cf_ellps_params |-> [semi_major_axis |-> Num(6370997)]]

CRSs == {WGS84, UTM19N, AEA, SPFT, SPHERE}

\* affine.Affine(a, b, c, d, e, f); coefficients in tenths of a unit
Affine(a, b, c, d, e, f) == [a |-> a, b |-> b, c |-> c, d |-> d, e |-> e, f |-> f]

Transforms ==
    { Affine(1, 0, -1800, 0, -1, 900),
      Affine(300, 0, 5, 0, -300, 7),
      Affine(2, 3, 4, 5, 6, 7) }

GridMappingNames == {"crs", "other"}

\* projections.cf_crs_name
cf_crs_name(crs) == crs.gm_name
\* projections.epsg_code
epsg_code(crs) == crs.auth
\* projections.cf_xy_coord_names
cf_xy_coord_names(crs) ==
    IF crs.projected THEN <<"x", "y">> ELSE <<"longitude", "latitude">>
\* utils.crs2osr(crs).GetLinearUnitsName()
GetLinearUnitsName(crs) == crs.unit

(* ------------------------------------------------------------------ *)
(* conventions.py: data                                               *)
(* ------------------------------------------------------------------ *)
COORD_DEFS_0 ==
    [longitude |-> [standard_name |-> "longitude",
                    long_name |-> "longitude",
                    units |-> "degrees_east"],
     latitude |-> [standard_name |-> "latitude",
                   long_name |-> "latitude",
                   units |-> "degrees_north"],
     x |-> [standard_name |-> "projection_x_coordinate",
            long_name |-> "x coordinate of projection"],
     y |-> [standard_name |-> "projection_y_coordinate",
            long_name |-> "y coordinate of projection"],
     time |-> [standard_name |-> "time",
               long_name |-> "Time, unix time-stamp",
               axis |-> "T",
               calendar |-> "standard"]]

CF_NC_ATTRS == [Conventions |-> Str("CF-1.7")]

(* ------------------------------------------------------------------ *)
(* conventions.py: grid mapping                                       *)
(* ------------------------------------------------------------------ *)
\* Affine.to_gdal(): (c, a, b, f, d, e)
to_gdal(t) == <<t.c, t.a, t.b, t.f, t.d, t.e>>

_georeference_attrs_gdal(crs, transform) ==
    [spatial_ref |-> Str(crs.wkt), GeoTransform |-> Tup(to_gdal(transform))]

\* the try/except/else of create_grid_mapping with the except clause left
\* out: a failed lookup propagates
epsg_code_value_uncaught(crs) ==
    LET r == epsg_code(crs) IN
    IF r.kind = "ValueError" THEN Raise("ValueError", "epsg_code")
    ELSE IF r.kind = "none" \/ r.v = <<>> THEN Return(0)
    ELSE LET parts == Split(r.v, ":") IN
         IF Len(parts) # 2 THEN Raise("ValueError", "unpack")
         ELSE ParseInt(parts[2])

\* the try/except/else of create_grid_mapping: the value of the record
epsg_code_value(crs) ==
    LET r == epsg_code(crs) IN
    IF r.kind = "ValueError" THEN Return(0)
    ELSE IF r.kind = "none" \/ r.v = <<>> THEN Return(0)
    ELSE LET parts == Split(r.v, ":") IN
         IF Len(parts) # 2 THEN Raise("ValueError", "unpack")
         ELSE ParseInt(parts[2])

\* list/tuple attribute values become numpy arrays
Fixup(attrs) ==
    [k \in DOMAIN attrs |->
        IF attrs[k].t \in {"list", "tuple"} THEN Arr(attrs[k].v) ELSE attrs[k]]

create_grid_mapping(crs, transform, grid_mapping) ==
    LET name == cf_crs_name(crs)
        code == epsg_code_value(crs)
        a0 == [grid_mapping_name |-> Str(name)]
        a1 == Update(a0, crs.cf_crs_attrs)
        a2 == Update(a1, crs.cf_proj_params)
        a3 == Update(a2, crs.cf_ellps_params)
        a4 == Update(a3, _georeference_attrs_gdal(crs, transform))
    IN  IF code.kind = "raise" THEN code
        ELSE Return([name |-> grid_mapping, value |-> code.value,
                     attrs |-> Fixup(a4)])

(* ------------------------------------------------------------------ *)
(* conventions.py: coordinates                                        *)
(* ------------------------------------------------------------------ *)
\* the template dict after its attributes were edited without .copy()
TemplateAfterAliased(defs, name, attrs) == [defs EXCEPT ![name] = attrs]

\* COORD_DEFS after COORD_DEFS[name].copy() was edited into attrs
TemplateAfter(defs, name, attrs) == defs

create_coordinates(defs, y, x, crs) ==
    LET names == cf_xy_coord_names(crs)
        x_var == names[1]
        y_var == names[2]
        y_attrs == defs[y_var]
        x_attrs == defs[x_var]
        units == Lower(GetLinearUnitsName(crs))
        y_attrs2 == IF crs.projected THEN Put(y_attrs, "units", units) ELSE y_attrs
        x_attrs2 == IF crs.projected THEN Put(x_attrs, "units", units) ELSE x_attrs
    IN  [y |-> [dims |-> <<y_var>>, data |-> y, attrs |-> y_attrs2],
         x |-> [dims |-> <<x_var>>, data |-> x, attrs |-> x_attrs2],
         defs |-> TemplateAfter(TemplateAfter(defs, y_var, y_attrs2), x_var, x_attrs2)]

(* ------------------------------------------------------------------ *)
(* xarray objects                                                     *)
(* ------------------------------------------------------------------ *)
\* a data variable of a Dataset
Var(dims) == [dims |-> dims, attrs |-> EmptyDict]
Dataset(data_vars) ==
    [type |-> "Dataset", dims |-> {}, attrs |-> EmptyDict,
     coords |-> EmptyDict, data_vars |-> data_vars]
DataArray(dims) ==
    [type |-> "DataArray", dims |-> dims, attrs |-> EmptyDict,
     coords |-> EmptyDict, data_vars |-> EmptyDict]

(* ------------------------------------------------------------------ *)
(* conventions.py: georeference                                       *)
(* ------------------------------------------------------------------ *)
\* _georef with "or" in place of "and"
_georef_either(x, dim_x, dim_y, grid_mapping) ==
    IF dim_x \in x.dims \/ dim_y \in x.dims
    THEN [x EXCEPT !.attrs = Put(@, "grid_mapping", Str(grid_mapping))]
    ELSE x

_georef(x, dim_x, dim_y, grid_mapping) ==
    IF dim_x \in x.dims /\ dim_y \in x.dims
    THEN [x EXCEPT !.attrs = Put(@, "grid_mapping", Str(grid_mapping))]
    ELSE x

\* the body of georeference on the object it works on (the original when
\* inplace, its copy otherwise)
georeference(xarr, crs, transform, grid_mapping) ==
    LET gm == create_grid_mapping(crs, transform, grid_mapping) IN
    IF gm.kind = "raise" THEN gm
    ELSE
    LET x1 == [xarr EXCEPT !.coords =
                   Put(@, grid_mapping, [value |-> gm.value.value,
                                         attrs |-> gm.value.attrs])]
        names == cf_xy_coord_names(crs)
        dim_x == names[1]
        dim_y == names[2]
        x2 == IF x1.type = "DataArray"
              THEN _georef(x1, dim_x, dim_y, grid_mapping)
              ELSE [x1 EXCEPT !.data_vars =
                       [v \in DOMAIN @ |-> _georef(@[v], dim_x, dim_y, grid_mapping)]]
        x3 == [x2 EXCEPT !.attrs = Update(@, CF_NC_ATTRS)]
    IN  Return(x3)

\* "xarr if inplace else xarr.copy()" with the copy left out: the index in
\* objs of the object the call works on
TargetAliased(n, i, inplace) == i

\* "xarr if inplace else xarr.copy()": the index in objs of the object the
\* call works on; xarray's shallow copy has its own variables, coordinates
\* and attribute dicts, so it is a new object n + 1
Target(n, i, inplace) == IF inplace THEN i ELSE n + 1

(* ------------------------------------------------------------------ *)
(* conventions.py: is_georeferenced                                   *)
(* ------------------------------------------------------------------ *)
_check_georef(xarr, attrs) == \A a \in attrs : a \in DOMAIN xarr.attrs

get_grid_mapping(xarr, grid_mapping) ==
    IF grid_mapping \in DOMAIN xarr.coords
    THEN Return(xarr.coords[grid_mapping])
    ELSE Raise("KeyError", "No grid mapping variable found")

\* The parameter is spelled required_gdal and the body reads require_gdal,
\* a name bound nowhere: evaluating it raises NameError.  The call of
\* get_grid_mapping passes no grid_mapping, so its default "crs" is used.
is_georeferenced(xarr, grid_mapping, required_gdal) ==
    LET var_grid_mapping == get_grid_mapping(xarr, "crs") IN
    IF var_grid_mapping.kind = "raise" THEN Return(FALSE)
    ELSE
    LET gmv == var_grid_mapping.value
        cf_ok == _check_georef(gmv, {"grid_mapping_name"})
        gdal_ok == _check_georef(gmv, {"spatial_ref", "GeoTransform"})
    IN  IF ~cf_ok THEN Return(FALSE)
        ELSE IF ~gdal_ok
        THEN Raise("NameError", "name 'require_gdal' is not defined")
        ELSE IF xarr.type = "DataArray"
        THEN IF ~_check_georef(xarr, {"grid_mapping"}) THEN Return(FALSE)
             ELSE Return(TRUE)
        ELSE IF ~(\E v \in DOMAIN xarr.data_vars :
                    _check_georef(xarr.data_vars[v], {"grid_mapping"}))
        THEN Return(FALSE)
        ELSE Return(TRUE)

(* ------------------------------------------------------------------ *)
(* Inputs of the georeferencing operations                            *)
(* ------------------------------------------------------------------ *)
GeoCRSs == {WGS84, UTM19N}
GeoTransform0 == Affine(1, 0, -1800, 0, -1, 900)

\* a grid-mapping coordinate as another writer left it, with the given attributes
Coord(keys) == [value |-> 0, attrs |-> [k \in keys |-> Str("external")]]
Stamped(dims, name) == [dims |-> dims, attrs |-> [grid_mapping |-> Str(name)]]

GeorefKeys == {"grid_mapping_name", "spatial_ref", "GeoTransform"}

InitialObjects ==
    << \* a dataset georeferenced earlier, under the default name
       georeference(Dataset([ndvi |-> Var({"time", "y", "x"}), qa |-> Var({"time"})]),
                    UTM19N, GeoTransform0, "crs").value,
       \* a complete grid-mapping coordinate, the array itself unstamped
       [DataArray({"y", "x"}) EXCEPT !.coords = [crs |-> Coord(GeorefKeys)]],
       \* plain data, no georeferencing
       Dataset([ndvi |-> Var({"time", "y", "x"}), qa |-> Var({"time"}),
                dem |-> Var({"latitude", "longitude"})]),
       Dataset([row |-> Var({"time", "x"}), col |-> Var({"y"})]),
       DataArray({"y", "x"}),
       DataArray({"time"}),
       \* a complete grid-mapping coordinate under another name
       [Dataset([ndvi |-> Stamped({"y", "x"}, "other")])
            EXCEPT !.coords = [other |-> Coord(GeorefKeys)]],
       \* a coordinate, no variable refers to it
       [Dataset([qa |-> Var({"time"})])
            EXCEPT !.coords = [crs |-> Coord(GeorefKeys)]],
       \* GDAL attributes only
       [Dataset([ndvi |-> Stamped({"y", "x"}, "crs")])
            EXCEPT !.coords = [crs |-> Coord({"spatial_ref", "GeoTransform"})]],
       \* CF attributes only
       [Dataset([ndvi |-> Stamped({"y", "x"}, "crs")])
            EXCEPT !.coords = [crs |-> Coord({"grid_mapping_name"})]],
       \* one of the two GDAL attributes missing
       [DataArray({"y", "x"})
            EXCEPT !.coords = [crs |-> Coord({"grid_mapping_name", "spatial_ref"})],
                   !.attrs = [grid_mapping |-> Str("crs")]] >>

(* ------------------------------------------------------------------ *)
(* convert.py: the types the converters meet                          *)
(* ------------------------------------------------------------------ *)
\* the base class of each type (single inheritance)
Parent ==
    [CRS |-> "object", str |-> "object", int |-> "object", bool |-> "int",
     dict |-> "object", OrderedDict |-> "dict", SpatialReference |-> "object",
     Affine |-> "object", tuple |-> "object", BoundingBox |-> "tuple",
     list |-> "object", ndarray |-> "object", BaseGeometry |-> "object",
     Point |-> "BaseGeometry", Polygon |-> "BaseGeometry",
     float |-> "object", T |-> "object", SubT |-> "T"]

\* type(value).__mro__
RECURSIVE Mro(_)
Mro(t) == IF t = "object" THEN <<"object">> ELSE <<t>> \o Mro(Parent[t])

\* find_subclasses(shapely.geometry.base.BaseGeometry)
GEOM_TYPE == {"Point", "Polygon"}

\* register_multi_singledispatch(func, types): one function for each type
RegisterMulti(reg, types, impl) ==
    [t \in DOMAIN reg \cup types |-> IF t \in types THEN impl ELSE reg[t]]

\* the registries once the module is imported
Registry0 ==
    [to_transform |->
        Put([object |-> "to_transform"], "Affine", "_to_transform_affine"),
     to_bounds |->
        RegisterMulti(
            RegisterMulti(
                Put([object |-> "to_bounds"], "BoundingBox", "_to_bounds_bounds"),
                {"tuple", "list", "ndarray"}, "_to_bounds_iter"),
            GEOM_TYPE, "_to_bounds_geom"),
     to_crs |->
        Put(Put(Put(Put(Put([object |-> "to_crs"],
            "CRS", "_to_crs_crs"), "str", "_to_crs_str"), "int", "_to_crs_epsg"),
            "dict", "_to_crs_dict"), "SpatialReference", "_to_crs_osr"),
     to_bbox |->
        Put(RegisterMulti([object |-> "to_bbox"], GEOM_TYPE, "_to_bbox_geom"),
            "BoundingBox", "_to_bbox_bounds")]

Kinds == DOMAIN Registry0

\* singledispatch looking at the exact type only
dispatch_exact(reg, t) == IF t \in DOMAIN reg THEN reg[t] ELSE reg["object"]

\* singledispatch: the function registered for the first type of the MRO
\* that has one ("object" always has: the decorated function itself)
dispatch(reg, t) ==
    LET mro == Mro(t)
        k == CHOOSE i \in DOMAIN mro :
                /\ mro[i] \in DOMAIN reg
                /\ \A j \in 1..(i - 1) : mro[j] \notin DOMAIN reg
    IN  reg[mro[k]]

(* ------------------------------------------------------------------ *)
(* convert.py: the converters                                         *)
(* ------------------------------------------------------------------ *)
\* The exception is built from a plain string literal, not an f-string:
\* the braces and what is between them stay as written.
_CANT_CONVERT(obj) ==
    Raise("TypeError", <<"Don't know how to convert this type: ", "{type(obj)}">>)

\* what a parser of rasterio makes of a text: a CRS or CRSError
ParseError == [ok |-> FALSE]
Parsed(crs) == [ok |-> TRUE, crs |-> crs]
Obj(type, v) == [type |-> type, v |-> v]

FromParse(p) ==
    IF p.ok THEN Return(Obj("CRS", p.crs)) ELSE Raise("CRSError", "parse")
\* CRS.from_wkt
from_wkt(text) == FromParse(text.wkt)
\* CRS.from_string
from_string(text) == FromParse(text.proj)
\* CRS.from_epsg
from_epsg(code) ==
    IF code = 4326 THEN Return(Obj("CRS", WGS84))
    ELSE IF code = 32619 THEN Return(Obj("CRS", UTM19N))
    ELSE Raise("CRSError", "epsg")

\* crs_.is_valid is evaluated and its value dropped: it is a property that
\* answers a bool, so only the parse errors reach the except clauses
_to_crs_str(value) ==
    LET w == from_wkt(value.v) IN
    IF w.kind = "return" THEN w
    ELSE LET p == from_string(value.v) IN
         IF p.kind = "return" THEN p
         ELSE Raise("CRSError", "Could not interpret CRS input as either WKT or Proj4")

\* BoundingBox(*value): a namedtuple of four fields
BoundingBox(args) ==
    IF Len(args) = 4 THEN Return(Obj("BoundingBox", args))
    ELSE Raise("TypeError", "__new__() arguments")

\* shapely.geometry.box(*value)
box(args) == Return(Obj("Polygon", [bounds |-> args]))

Defaults == {"to_transform", "to_bounds", "to_crs", "to_bbox"}

\* the converter impl applied to value
Call(impl, value) ==
    CASE impl \in Defaults -> _CANT_CONVERT(value)
      [] impl \in {"_to_transform_affine", "_to_bounds_bounds", "_to_crs_crs"} ->
            Return(value)
      [] impl = "_to_bounds_iter" -> BoundingBox(value.v)
      [] impl = "_to_bounds_geom" -> BoundingBox(value.v.bounds)
      [] impl = "_to_crs_str" -> _to_crs_str(value)
      [] impl = "_to_crs_epsg" -> from_epsg(value.v)
      [] impl = "_to_crs_dict" -> FromParse(value.v)
      [] impl = "_to_crs_osr" -> from_wkt(value.v)
      [] impl = "_to_bbox_geom" -> box(BoundingBox(value.v.bounds).value.v)
      [] impl = "_to_bbox_bounds" -> box(value.v)
      [] OTHER -> Return(Obj("converted", impl))

(* ------------------------------------------------------------------ *)
(* Inputs of the converters                                           *)
(* ------------------------------------------------------------------ *)
\* a definition the parser accepts and that reports itself invalid
INVALID == [WGS84 EXCEPT !.id = "INVALID", !.valid = FALSE, !.wkt = "LOCAL_CS[bad]"]

\* texts, each described by what the two parsers make of it
TextWkt == [wkt |-> Parsed(WGS84), proj |-> Parsed(WGS84)]
TextProj == [wkt |-> ParseError, proj |-> Parsed(UTM19N)]
TextNeither == [wkt |-> ParseError, proj |-> ParseError]
TextWktInvalid == [wkt |-> Parsed(INVALID), proj |-> ParseError]
TextWktInvalidProjOk == [wkt |-> Parsed(INVALID), proj |-> Parsed(AEA)]
TextProjInvalid == [wkt |-> ParseError, proj |-> Parsed(INVALID)]

Values ==
    << Obj("CRS", WGS84), Obj("CRS", SPFT),
      Obj("str", TextWkt), Obj("str", TextProj), Obj("str", TextNeither),
      Obj("str", TextWktInvalid), Obj("str", TextWktInvalidProjOk),
      Obj("str", TextProjInvalid),
      Obj("int", 4326), Obj("int", 9), Obj("bool", 1),
      Obj("dict", Parsed(WGS84)), Obj("OrderedDict", Parsed(UTM19N)),
      Obj("dict", ParseError),
      Obj("SpatialReference", TextWkt),
      Obj("Affine", GeoTransform0),
      Obj("tuple", <<0, 0, 10, 10>>), Obj("tuple", <<0, 0, 10>>),
      Obj("list", <<0, 0, 10, 10>>), Obj("ndarray", <<0, 0, 10, 10>>),
      Obj("BoundingBox", <<0, 0, 10, 10>>),
      Obj("Polygon", [bounds |-> <<0, 0, 10, 10>>]),
      Obj("Point", [bounds |-> <<3, 4, 3, 4>>]),
      Obj("float", 15), Obj("T", "t"), Obj("SubT", "subt") >>

\* the types a caller registers converters for, each with its converter
ExtImpl == [T |-> "_from_T", bool |-> "_from_bool"]
RegTypes == DOMAIN ExtImpl
\* the converters they extend
RegKinds == {"to_crs", "to_bounds"}

\* the coordinate arrays given to create_coordinates
CoordArrays == {<<0, 1, 2>>}

(* ------------------------------------------------------------------ *)
(* Georeferencing: the state machine                                  *)
(* ------------------------------------------------------------------ *)
Init ==
    /\ \E k \in DOMAIN InitialObjects : objs = <<InitialObjects[k]>>
    /\ calls = 0
    /\ registry = Registry0
    /\ COORD_DEFS = COORD_DEFS_0
    /\ last = [op |-> "init"]

Georeference(i, crs, transform, grid_mapping, inplace) ==
    /\ calls < MaxCalls
    /\ LET out == georeference(objs[i], crs, transform, grid_mapping)
           dst == Target(Len(objs), i, inplace)
       IN  /\ objs' = IF out.kind = "raise" THEN objs
                      ELSE IF dst <= Len(objs) THEN [objs EXCEPT ![dst] = out.value]
                      ELSE Append(objs, out.value)
           /\ last' = [op |-> "georeference", src |-> i, dst |-> dst,
                       crs |-> crs, grid_mapping |-> grid_mapping,
                       inplace |-> inplace, before |-> objs[i],
                       raised |-> out.kind = "raise"]
    /\ calls' = calls + 1
    /\ UNCHANGED <<registry, COORD_DEFS>>

IsGeoreferenced(i, grid_mapping, required_gdal) ==
    /\ last' = [op |-> "is_georeferenced", obj |-> i,
                grid_mapping |-> grid_mapping, required_gdal |-> required_gdal,
                out |-> is_georeferenced(objs[i], grid_mapping, required_gdal)]
    /\ UNCHANGED <<objs, calls, registry, COORD_DEFS>>

Next ==
    \/ \E i \in DOMAIN objs, crs \in GeoCRSs, gm \in GridMappingNames, inplace \in BOOLEAN :
          Georeference(i, crs, GeoTransform0, gm, inplace)
    \/ \E i \in DOMAIN objs, gm \in GridMappingNames, flag \in BOOLEAN :
          IsGeoreferenced(i, gm, flag)

Spec == Init /\ [][Next]_vars

(* ------------------------------------------------------------------ *)
(* Converters and synthesizers: the state machine                     *)
(* ------------------------------------------------------------------ *)
InitLib ==
    /\ objs = <<>>
    /\ calls = 0
    /\ registry = Registry0
    /\ COORD_DEFS = COORD_DEFS_0
    /\ last = [op |-> "init"]

\* to_xxx.register(type)(impl)
Register(kind, type, impl) ==
    /\ registry' = [registry EXCEPT ![kind] = Put(@, type, impl)]
    /\ last' = [op |-> "register", kind |-> kind, type |-> type, impl |-> impl,
                was |-> dispatch(registry[kind], type)]
    /\ UNCHANGED <<objs, calls, COORD_DEFS>>

\* to_transform(value), to_bounds(value), to_crs(value), to_bbox(value)
Convert(kind, value) ==
    /\ LET impl == dispatch(registry[kind], value.type) IN
       last' = [op |-> "convert", kind |-> kind, value |-> value,
                impl |-> impl, out |-> Call(impl, value)]
    /\ UNCHANGED <<objs, calls, registry, COORD_DEFS>>

CreateGridMapping(crs, transform, grid_mapping) ==
    /\ last' = [op |-> "create_grid_mapping", crs |-> crs, transform |-> transform,
                grid_mapping |-> grid_mapping,
                out |-> create_grid_mapping(crs, transform, grid_mapping)]
    /\ UNCHANGED <<objs, calls, registry, COORD_DEFS>>

CreateCoordinates(y, x, crs) ==
    /\ LET r == create_coordinates(COORD_DEFS, y, x, crs) IN
       /\ COORD_DEFS' = r.defs
       /\ last' = [op |-> "create_coordinates", crs |-> crs, y |-> r.y, x |-> r.x]
    /\ UNCHANGED <<objs, calls, registry>>

NextLib ==
    \/ \E crs \in CRSs, transform \in Transforms, gm \in GridMappingNames :
          CreateGridMapping(crs, transform, gm)
    \/ \E kind \in Kinds, k \in DOMAIN Values : Convert(kind, Values[k])
    \/ \E y \in CoordArrays, x \in CoordArrays, crs \in CRSs :
          CreateCoordinates(y, x, crs)
    \/ \E kind \in RegKinds, t \in RegTypes : Register(kind, t, ExtImpl[t])

SpecLib == InitLib /\ [][NextLib]_vars

(* ------------------------------------------------------------------ *)
(* Properties of the georeferencing operations (Spec)                 *)
(* ------------------------------------------------------------------ *)
\* the dimension names georeference expects for a CRS
ExpectedDims(crs) == IF crs.projected THEN {"x", "y"} ELSE {"longitude", "latitude"}

\* the grid-mapping coordinate is there and lacks a GDAL attribute
LacksGdalAttrs(xarr, name) ==
    /\ name \in DOMAIN xarr.coords
    /\ ~({"spatial_ref", "GeoTransform"} \subseteq DOMAIN xarr.coords[name].attrs)

\* C1: is_georeferenced never raises, whatever is missing and whatever the
\* GDAL flag is: it answers a boolean, and when the GDAL attributes are
\* required and one of them is missing it answers False.
C1_DetectorNeverRaises ==
    last.op = "is_georeferenced" =>
        /\ last.out.kind = "return"
        /\ last.out.value \in BOOLEAN
        /\ (last.required_gdal /\ LacksGdalAttrs(objs[last.obj], last.grid_mapping))
              => last.out.value = FALSE

\* C2: is_georeferenced(data, n) answers False whenever data has no
\* coordinate named n, for every name n.
C2_FailsClosedForEveryName ==
    (/\ last.op = "is_georeferenced"
     /\ last.grid_mapping \notin DOMAIN objs[last.obj].coords)
        => (last.out.kind = "return" /\ last.out.value = FALSE)

C3_Case ==
    /\ last.op = "georeference"
    /\ ~last.raised
    /\ last.grid_mapping = "crs"
    /\ last.before.type = "Dataset"
    /\ \A v \in DOMAIN last.before.data_vars :
          "grid_mapping" \notin DOMAIN last.before.data_vars[v].attrs

\* C3: on a dataset none of whose variables carries grid_mapping, georeference
\* with the default name stamps grid_mapping on exactly the variables whose
\* dimensions hold both expected names; if one was stamped, is_georeferenced
\* answers True on the result.
C3_PartialGeoreferencing ==
    C3_Case =>
        LET res == objs[last.dst]
            stamped == {v \in DOMAIN res.data_vars :
                           "grid_mapping" \in DOMAIN res.data_vars[v].attrs}
        IN  /\ DOMAIN res.data_vars = DOMAIN last.before.data_vars
            /\ stamped = {v \in DOMAIN last.before.data_vars :
                             ExpectedDims(last.crs) \subseteq last.before.data_vars[v].dims}
            /\ \A v \in stamped : res.data_vars[v].attrs["grid_mapping"] = Str("crs")
            /\ stamped # {} =>
                  LET r == is_georeferenced(res, "crs", FALSE)
                  IN  r.kind = "return" /\ r.value = TRUE

\* a dataset came out with one variable stamped and another left alone
C3_Witness ==
    /\ C3_Case
    /\ \E v, w \in DOMAIN objs[last.dst].data_vars :
          /\ "grid_mapping" \in DOMAIN objs[last.dst].data_vars[v].attrs
          /\ "grid_mapping" \notin DOMAIN objs[last.dst].data_vars[w].attrs

\* C4: georeference with inplace=False leaves the caller's object as it was:
\* same coordinates, same attributes on every variable, same top-level
\* attributes.
C4_CopyLeavesOriginal ==
    (last.op = "georeference" /\ ~last.inplace) =>
        /\ objs[last.src].coords = last.before.coords
        /\ objs[last.src].data_vars = last.before.data_vars
        /\ objs[last.src].attrs = last.before.attrs
        /\ objs[last.src] = last.before

\* a copy was georeferenced: it carries the changes, the original none
C4_Witness ==
    /\ last.op = "georeference"
    /\ ~last.inplace
    /\ ~last.raised
    /\ last.dst # last.src
    /\ "Conventions" \in DOMAIN objs[last.dst].attrs
    /\ "Conventions" \notin DOMAIN objs[last.src].attrs
    /\ last.grid_mapping \in DOMAIN objs[last.dst].coords
    /\ last.grid_mapping \notin DOMAIN objs[last.src].coords

(* ------------------------------------------------------------------ *)
(* Properties of the converters and synthesizers (SpecLib)            *)
(* ------------------------------------------------------------------ *)
\* C5: for a text, to_crs returns the well-known-text parse only if it
\* succeeds and the definition is valid; otherwise it returns what the Proj
\* parse returns; if that fails too it raises the error naming both forms.
C5_WktThenProj ==
    (last.op = "convert" /\ last.impl = "_to_crs_str") =>
        LET text == last.value.v
            wkt_good == text.wkt.ok /\ text.wkt.crs.valid
        IN  IF wkt_good
            THEN last.out.kind = "return" /\ last.out.value = Obj("CRS", text.wkt.crs)
            ELSE IF text.proj.ok
            THEN text.proj.crs.valid =>
                    (last.out.kind = "return" /\ last.out.value = Obj("CRS", text.proj.crs))
            ELSE /\ last.out.kind = "raise"
                 /\ last.out.exc = "CRSError"
                 /\ last.out.msg = "Could not interpret CRS input as either WKT or Proj4"

\* C6: converting a value whose type has no applicable registration fails
\* with an error whose message names the runtime type of the value.
C6_MessageNamesType ==
    (last.op = "convert" /\ last.impl \in Defaults) =>
        /\ last.out.kind = "raise"
        /\ last.out.exc = "TypeError"
        /\ \E i \in DOMAIN last.out.msg : last.out.msg[i] = last.value.type

C7_Complete(crs, rec) ==
    /\ {"grid_mapping_name", "spatial_ref", "GeoTransform"} \subseteq DOMAIN rec.attrs
    /\ DOMAIN crs.cf_crs_attrs \subseteq DOMAIN rec.attrs
    /\ DOMAIN crs.cf_proj_params \subseteq DOMAIN rec.attrs
    /\ DOMAIN crs.cf_ellps_params \subseteq DOMAIN rec.attrs

\* C7: create_grid_mapping never fails for want of an authority code: with
\* the lookup answering none or failing the record is complete and its value
\* is 0; with the lookup answering "AUTH:CODE" its value is the integer CODE.
C7_AuthorityCodeSentinel ==
    last.op = "create_grid_mapping" =>
        /\ last.out.kind = "return"
        /\ last.out.value.name = last.grid_mapping
        /\ C7_Complete(last.crs, last.out.value)
        /\ last.crs.auth.kind \in {"none", "ValueError"} => last.out.value.value = 0
        /\ last.crs.id = "WGS84" => last.out.value.value = 4326
        /\ last.crs.id = "UTM19N" => last.out.value.value = 32619

\* the lookup failed and the record was built with value 0
C7_Witness ==
    /\ last.op = "create_grid_mapping"
    /\ last.crs.auth.kind = "ValueError"
    /\ last.out.kind = "return"
    /\ last.out.value.value = 0
    /\ C7_Complete(last.crs, last.out.value)

\* six numbers as GDAL's text: the numbers separated by blanks
GdalText(t) == Str(<<t[1], " ", t[2], " ", t[3], " ", t[4], " ", t[5], " ", t[6]>>)

\* C8: the GeoTransform attribute of the record is a text encoding of the
\* GDAL-ordered tuple (c, a, b, f, d, e) of the transform (a, b, c, d, e, f).
C8_GeoTransformText ==
    (last.op = "create_grid_mapping" /\ last.out.kind = "return") =>
        LET g == last.out.value.attrs["GeoTransform"]
            t == last.transform
        IN  /\ g.t = "str"
            /\ g = GdalText(<<t.c, t.a, t.b, t.f, t.d, t.e>>)

RECURSIVE IsSubclass(_, _)
\* issubclass(t, a)
IsSubclass(t, a) == t = a \/ (t # "object" /\ IsSubclass(Parent[t], a))

\* C9: after any registrations a conversion uses the converter of the exact
\* type if there is one, else that of the nearest registered ancestor, else
\* fails as unconvertible; registering a converter for T makes conversions of
\* T succeed, and types with no registered type in their ancestry fail.
C9_DispatchByAncestry ==
    /\ last.op = "convert" =>
          LET reg == registry[last.kind]
              t == last.value.type
              R == {a \in DOMAIN reg \ {"object"} : IsSubclass(t, a)}
          IN  IF R = {}
              THEN /\ last.impl = last.kind
                   /\ last.out.kind = "raise"
                   /\ last.out.exc = "TypeError"
              ELSE \E a \in R :
                      /\ \A b \in R : IsSubclass(a, b)
                      /\ t \in R => a = t
                      /\ last.impl = reg[a]
    /\ last.op = "register" =>
          \A k \in DOMAIN Values :
              Values[k].type = last.type =>
                  LET impl == dispatch(registry[last.kind], last.type)
                  IN  impl = last.impl /\ Call(impl, Values[k]).kind = "return"

\* a value of a subclass of a newly registered type went to its converter
C9_Witness ==
    /\ last.op = "convert"
    /\ last.value.type = "SubT"
    /\ last.impl = "_from_T"
    /\ last.out.kind = "return"

\* the lower-cased linear unit name of each projected CRS
ExpectedUnits(crs) ==
    IF crs.id = "SPFT"
    THEN <<"u","s"," ","s","u","r","v","e","y"," ","f","o","o","t">>
    ELSE <<"m","e","t","r","e">>

\* C10: after any sequence of create_coordinates calls the templates are as
\* at import; a geographic CRS gives longitude/latitude in degrees_east/
\* degrees_north; a projected CRS gives x/y with the lower-cased unit name
\* on both axes, the same for every projected CRS with that unit.
C10_AxisNaming ==
    /\ COORD_DEFS = COORD_DEFS_0
    /\ last.op = "create_coordinates" =>
          IF ~last.crs.projected
          THEN /\ last.x.dims = <<"longitude">>
               /\ last.y.dims = <<"latitude">>
               /\ last.x.attrs["units"] = "degrees_east"
               /\ last.y.attrs["units"] = "degrees_north"
          ELSE /\ last.x.dims = <<"x">>
               /\ last.y.dims = <<"y">>
               /\ last.x.attrs["units"] = ExpectedUnits(last.crs)
               /\ last.y.attrs["units"] = ExpectedUnits(last.crs)
               /\ \A c \in CRSs :
                     (c.projected /\ c.unit = last.crs.unit) =>
                        LET r == create_coordinates(COORD_DEFS, last.y.data, last.x.data, c)
                        IN  /\ r.x.attrs["units"] = last.x.attrs["units"]
                            /\ r.y.attrs["units"] = last.y.attrs["units"]

\* coordinates were made for a projected CRS in feet
C10_Witness ==
    /\ last.op = "create_coordinates"
    /\ last.crs.id = "SPFT"
    /\ last.x.attrs["units"] = last.y.attrs["units"]
    /\ last.x.attrs["standard_name"] = "projection_x_coordinate"

====
